---- MODULE Spec2Model ----
(***************************************************************************)
(* Model of the VS Code Marketplace Downloader: the marketplace client     *)
(* (src/utils/marketplaceApi.ts), the background dispatcher                *)
(* (src/background/index.ts) and the content script                        *)
(* (src/content/index.ts).                                                 *)
(*                                                                         *)
(* A JavaScript string is a sequence of tokens (one token per character,   *)
(* or one token for a run of characters the code never looks into).        *)
(* undefined and null are the tagged records Undefined and Null; an array  *)
(* that may be absent is wrapped by Arr, a string that may be absent by    *)
(* Str. A string field that a marketplace record lacks reads as NoString.  *)
(***************************************************************************)
EXTENDS Integers, Sequences, FiniteSets, TLC

VARIABLES
  pc,           \* where the running call is: "idle", "fetch", "download", "done"
  caller,       \* the operation that was invoked: "none", "fetchExtensionInfo",
                \* "getExtensionDownloadUrl", "handleMessage"
  extensionId,  \* the identifier argument of the call
  version,      \* the version argument of getExtensionDownloadUrl
  marketplace,  \* the body the marketplace answers a query with
  message,      \* the message delivered to the background listener
  network,      \* the requests issued with fetch(), in order
  response,     \* what fetch() settled with
  extension,    \* the value fetchExtensionInfo resolved to
  downloadInfo, \* the value getExtensionDownloadUrl resolved to
  rejected,     \* TRUE when the called operation's promise was rejected
  downloads,    \* the calls of chrome.downloads.download, in order
  downloadId,   \* what chrome.downloads.download settled with: "none" so far,
                \* "id", "noId" (resolved without an id) or "throw"
  responses,    \* the calls of sendResponse, in order
  keptOpen,     \* TRUE when the listener returned true for the message
  urlInput,     \* the parts the URL string was written from (or its raw text)
  url,          \* the URL string passed to a URL operation
  urlCall,      \* the URL operation that ran: "none", "extractExtensionIdFromUrl",
                \* "isMarketplaceExtensionPage"
  urlResult,    \* what it returned
  urlThrew,     \* TRUE when it threw
  filePc,       \* where the downloadExtensionFile call is: "idle", "fetch", "done"
  fileArgs,     \* its arguments: downloadUrl and filename
  fileBody,     \* the body the file server answers the GET with
  fileResponse, \* what its fetch() settled with
  fileResult,   \* what it resolved to
  fileRejected, \* TRUE when its promise was rejected
  pageHref,     \* window.location.href of each open page, as URL parts
  hasInstall,   \* whether each page shows an install button
  pagePc,       \* where each page's content script is: "new", "listening"
                \* (for DOMContentLoaded), "timer", "styling", "ready"
                \* (container inserted), "off" (nothing more to run)
  getting,      \* per page, the click handlers waiting for storage.get
  sending,      \* per page, the click handlers waiting for the response
  dom,          \* per page, the injected elements and what they show
  ended,        \* per page, how the last finished click handler ended
  storage,      \* chrome.storage.local: the value under STORAGE_KEY
  clicks,       \* the number of clicks on injected buttons so far
  sent,         \* the messages passed to chrome.runtime.sendMessage, with
                \* the page that sent each
  tab,          \* the active tab the popup was opened on (its url), or none
  popupPc,      \* where the popup is: "new", "fetch", "idle", "sending",
                \* "timer" (the button is reset in two seconds), "off"
  downloadBtn,  \* the popup's download button: "html" (as the markup left
                \* it), "disabled" or "enabled" (as the script set it)
  currentExtensionId, \* the popup's identifier, null until details are shown
  popupExtension,     \* what the popup's fetchExtensionInfo call resolved to
  popupClicks,  \* the number of clicks on the popup's download button
  popupSent     \* the messages the popup passed to sendMessage

clientVars == <<pc, caller, extensionId, version, marketplace, message, network, response,
                extension, downloadInfo, rejected, downloads, downloadId, responses,
                keptOpen>>

urlVars == <<urlInput, url, urlCall, urlResult, urlThrew>>

fileVars == <<filePc, fileArgs, fileBody, fileResponse, fileResult, fileRejected>>

pageVars == <<pageHref, hasInstall, pagePc, getting, sending, dom, ended,
              storage, clicks, sent>>

popupVars == <<tab, popupPc, downloadBtn, currentExtensionId, popupExtension,
               popupClicks, popupSent>>

vars == <<clientVars, urlVars, fileVars, pageVars, popupVars>>

-----------------------------------------------------------------------------
(* Bounds of the model                                                     *)

MaxIdLen == 4
MaxResults == 2
MaxExtensions == 2
MaxVersions == 2
MaxTotalFiles == 2
MaxParams == 2
MaxValueLen == 2
MaxPages == 2
MaxClicks == 2

-----------------------------------------------------------------------------
(* JavaScript values                                                       *)

Undefined == [t |-> "undefined"]
Null == [t |-> "null"]
Pending == [t |-> "pending"]
Arr(a) == [t |-> "array", a |-> a]
Str(s) == [t |-> "string", s |-> s]
Bool(b) == [t |-> "boolean", b |-> b]

\* ToBoolean of an optional string: undefined and "" are falsy
TruthyStr(v) == v.t = "string" /\ v.s # <<>>

\* Array.prototype.find: the first element whose index is in hits (the
\* indices at which the predicate holds), or undefined
Find(a, hits) ==
  IF hits # {}
  THEN a[CHOOSE i \in hits : \A j \in hits : i <= j]
  ELSE Undefined

\* all sequences over S of length at most n
RECURSIVE SeqUpTo(_, _)
SeqUpTo(S, n) ==
  IF n <= 0 THEN {<<>>}
  ELSE LET shorter == SeqUpTo(S, n - 1) IN
       shorter \cup {Append(q, x) : q \in {r \in shorter : Len(r) = n - 1}, x \in S}

\* the sequence f[1], ..., f[n]
Tabulate(n, f) ==
  LET t[k \in 0..n] == IF k = 0 THEN <<>> ELSE Append(t[k - 1], f[k]) IN t[n]

\* index of the first occurrence of token c in s, 0 when there is none
IndexOf(s, c) ==
  IF \E i \in 1..Len(s) : s[i] = c
  THEN CHOOSE i \in 1..Len(s) : s[i] = c /\ \A j \in 1..(i - 1) : s[j] # c
  ELSE 0

\* String.prototype.split(sep): cut at every occurrence of sep
RECURSIVE Split(_, _)
Split(s, sep) ==
  LET i == IndexOf(s, sep) IN
  IF i = 0 THEN <<s>>
  ELSE <<SubSeq(s, 1, i - 1)>> \o Split(SubSeq(s, i + 1, Len(s)), sep)

\* what reading a string field gives when the record has no such field:
\* undefined, written as a one-token sequence that no string equals
NoString == <<"(undefined)">>

\* ${v} in a template string: undefined prints as "undefined"
TemplateStr(v) == IF v = NoString THEN <<"undefined">> ELSE v

\* outcome of a block of code: it returns a value or throws
Return(v) == [thrown |-> FALSE, value |-> v]
Throw == [thrown |-> TRUE, value |-> Undefined]

-----------------------------------------------------------------------------
(* The data the marketplace returns (types of the client)                  *)

MARKETPLACE_API_BASE ==
  "https://marketplace.visualstudio.com/_apis/public/gallery/extensionquery"

EXTENSION_ASSET_TYPES ==
  [VSIX     |-> "Microsoft.VisualStudio.Services.VSIXPackage",
   MANIFEST |-> "Microsoft.VisualStudio.Code.Manifest",
   DETAILS  |-> "Microsoft.VisualStudio.Services.Content.Details",
   LICENSE  |-> "Microsoft.VisualStudio.Services.Content.License",
   ICON     |-> "Microsoft.VisualStudio.Services.Icons.Default"]

AssetTypeTags == {EXTENSION_ASSET_TYPES[k] : k \in DOMAIN EXTENSION_ASSET_TYPES}

\* the version strings the marketplace uses in the model, most recent first
VersionStrings == {<<"2.0.0">>, <<"1.0.0">>}

\* the version arguments a caller passes: none, the empty string, and a version
\* that a record holds first, holds later or does not hold
VersionArgs == {Undefined, Str(<<>>), Str(<<"1.0.0">>)}

Numeral(i) == <<"1", "2", "3", "4", "5", "6", "7", "8">>[i]

\* the source URL of file j of version i: every file of a record has its own
SourceOf(i, j) == <<"https://cdn.example/", Numeral(i), "/", Numeral(j)>>

\* ExtensionFile[] from a sequence of asset-type tags
FilesOf(i, tags) ==
  Tabulate(Len(tags), [j \in 1..Len(tags) |->
                         [assetType |-> tags[j], source |-> SourceOf(i, j)]])

\* a version's shape: its version string and the asset types of its files (or no
\* file list at all)
VersionShape(v, tags) == [version |-> v, tags |-> tags]

ShapeFiles(shape) == IF shape.tags = Undefined THEN 0 ELSE Len(shape.tags.a)

\* the sequences of n version shapes that hold at most f files altogether, each
\* file the package or an asset of type `other`
RECURSIVE VersionShapes(_, _, _)
VersionShapes(n, f, other) ==
  IF n = 0 THEN {<<>>}
  ELSE UNION {
    {<<VersionShape(v, tags)>> \o rest :
       rest \in VersionShapes(n - 1, f - ShapeFiles(VersionShape(v, tags)), other)} :
    v \in VersionStrings,
    tags \in {Undefined} \cup
             {Arr(ts) : ts \in SeqUpTo({EXTENSION_ASSET_TYPES.VSIX, other}, f)}}

\* ExtensionVersion[] from a sequence of version shapes
VersionsOf(shapes) ==
  LET Version(i) ==
        [version |-> shapes[i].version,
         files   |-> IF shapes[i].tags = Undefined THEN Undefined
                     ELSE Arr(FilesOf(i, shapes[i].tags.a))]
  IN Tabulate(Len(shapes), [i \in 1..Len(shapes) |-> Version(i)])

VersionLists ==
  UNION {{VersionsOf(sh) : sh \in VersionShapes(n, MaxTotalFiles, other)} :
         n \in 0..MaxVersions,
         other \in AssetTypeTags \ {EXTENSION_ASSET_TYPES.VSIX}}

\* the publisher descriptor of a record, or none
Publishers == {Undefined, [publisherName |-> <<"acme">>]}

\* VSCodeExtension: the fields the client reads
ExtensionRecord(name, pub, vers) ==
  [extensionName |-> name, publisher |-> pub, versions |-> vers]

\* the records of the resolution runs: every publisher, every version list
RichRecords ==
  {ExtensionRecord(<<"tool">>, p, vs) :
     p \in Publishers, vs \in {Undefined} \cup {Arr(v) : v \in VersionLists}}

\* two complete records that differ in every field a descriptor is built from
RecordA ==
  ExtensionRecord(<<"tool">>, [publisherName |-> <<"acme">>],
    Arr(VersionsOf(<<VersionShape(<<"2.0.0">>, Arr(<<EXTENSION_ASSET_TYPES.VSIX>>))>>)))

RecordB ==
  ExtensionRecord(<<"kit">>, [publisherName |-> <<"beta">>],
    Arr(VersionsOf(<<VersionShape(<<"1.0.0">>,
          Arr(<<EXTENSION_ASSET_TYPES.MANIFEST, EXTENSION_ASSET_TYPES.VSIX>>))>>)))

SimpleRecords == {RecordA, RecordB}

\* records with one version and one package file, in which the extension name,
\* the publisher name, the version string and the file's source may each be
\* missing
SparseRecords ==
  {ExtensionRecord(name, [publisherName |-> pub],
     Arr(<<[version |-> v,
            files   |-> Arr(<<[assetType |-> EXTENSION_ASSET_TYPES.VSIX,
                               source    |-> src]>>)]>>)) :
     name \in {<<"tool">>, NoString}, pub \in {<<"acme">>, NoString},
     v \in {<<"1.0.0">>, NoString}, src \in {SourceOf(1, 1), NoString}}

\* records that lack a part the resolution reads: the versions, every version,
\* the file list of the version, the publisher descriptor
BrokenRecords ==
  {ExtensionRecord(<<"tool">>, [publisherName |-> <<"acme">>], Undefined),
   ExtensionRecord(<<"tool">>, [publisherName |-> <<"acme">>], Arr(<<>>)),
   ExtensionRecord(<<"tool">>, [publisherName |-> <<"acme">>],
     Arr(VersionsOf(<<VersionShape(<<"1.0.0">>, Undefined)>>))),
   ExtensionRecord(<<"tool">>, Undefined,
     Arr(VersionsOf(<<VersionShape(<<"1.0.0">>,
                                   Arr(<<EXTENSION_ASSET_TYPES.VSIX>>))>>)))}

\* one element of the results array: { extensions?: VSCodeExtension[] }
ResultEntries(records) ==
  {[extensions |-> Undefined]} \cup
  {[extensions |-> Arr(es)] : es \in SeqUpTo(records, MaxExtensions)}

\* the results arrays: any first element, then elements without extensions or
\* with one record
ResultArrays ==
  {<<>>} \cup
  {<<first>> \o rest :
     first \in ResultEntries(SimpleRecords),
     rest \in SeqUpTo({[extensions |-> Undefined],
                       [extensions |-> Arr(<<RecordA>>)],
                       [extensions |-> Arr(<<RecordB>>)]}, MaxResults - 1)}

Unparseable == [t |-> "unparseable"]

\* the bodies of a success response: not JSON, JSON null, an object without
\* results, an object with a results array
ShapeBodies ==
  {Unparseable, Null, [t |-> "object", results |-> Undefined]} \cup
  {[t |-> "object", results |-> Arr(rs)] : rs \in ResultArrays}

\* the bodies of the resolution runs: exactly one record found
RichBodies ==
  {[t |-> "object", results |-> Arr(<<[extensions |-> Arr(<<e>>)]>>)] :
     e \in RichRecords}

\* one body for every way an answer can be incomplete: not JSON, JSON null, no
\* results, no record found, and a found record that is broken or sparse
ClientBodies ==
  {Unparseable, Null, [t |-> "object", results |-> Undefined],
   [t |-> "object", results |-> Arr(<<[extensions |-> Arr(<<>>)]>>)]} \cup
  {[t |-> "object", results |-> Arr(<<[extensions |-> Arr(<<e>>)]>>)] :
     e \in BrokenRecords \cup SparseRecords}

\* what fetch() settles with: a rejection, or a response with its ok flag and body
FetchRejected == [kind |-> "throw", ok |-> FALSE, body |-> Unparseable]
FetchResponse(ok, body) == [kind |-> "response", ok |-> ok, body |-> body]

\* the identifiers callers pass: strings over a letter and the separator
ExtensionIds == SeqUpTo({"a", "."}, MaxIdLen)

WellFormedId == <<"a", ".", "a">>

-----------------------------------------------------------------------------
(* fetchExtensionInfo                                                      *)

QueryFlags == 914
FilterTypeName == 7
PageNumber == 1
PageSize == 1
SortBy == 0
SortOrder == 0

\* const [publisher, name] = extensionId.split('.')
IdPublisher(id) == Str(Split(id, ".")[1])

IdName(id) ==
  LET parts == Split(id, ".") IN
  IF Len(parts) >= 2 THEN Str(parts[2]) ELSE Undefined

\* the format check with the name half forgotten
InvalidIdFormat_PublisherOnly(id) == ~TruthyStr(IdPublisher(id))

\* if (!publisher || !name)
InvalidIdFormat(id) == ~TruthyStr(IdPublisher(id)) \/ ~TruthyStr(IdName(id))

\* the request fetch() is called with
MarketplaceQuery(id) ==
  [url        |-> MARKETPLACE_API_BASE,
   method     |-> "POST",
   accept     |-> "application/json;api-version=6.0-preview.1",
   filterType |-> FilterTypeName,
   value      |-> id,
   pageNumber |-> PageNumber,
   pageSize   |-> PageSize,
   sortBy     |-> SortBy,
   sortOrder  |-> SortOrder,
   assetTypes |-> <<>>,
   flags      |-> QueryFlags]

\* the extensions of the last result instead of the first
FirstExtensions_LastResult(data) ==
  IF data.results = Undefined THEN Undefined
  ELSE IF Len(data.results.a) = 0 THEN Undefined
  ELSE data.results.a[Len(data.results.a)].extensions

\* data.results?.[0]?.extensions
FirstExtensions(data) ==
  IF data.results = Undefined THEN Undefined
  ELSE IF Len(data.results.a) = 0 THEN Undefined
  ELSE data.results.a[1].extensions

\* the try block from the point where fetch() settles
FetchExtensionInfoTry(outcome) ==
  IF outcome.kind = "throw" THEN Throw
  ELSE IF ~outcome.ok THEN Return(Null)
  ELSE IF outcome.body = Unparseable THEN Throw        \* response.json() rejects
  ELSE IF outcome.body = Null THEN Throw               \* null.results
  ELSE LET results == FirstExtensions(outcome.body) IN
       IF results = Undefined \/ Len(results.a) = 0 THEN Return(Null)
       ELSE Return(results.a[1])

\* fetchExtensionInfo without its catch block
FetchExtensionInfoSettle_NoCatch(outcome) == FetchExtensionInfoTry(outcome)

\* try { ... } catch (error) { return null }
FetchExtensionInfoSettle(outcome) ==
  LET r == FetchExtensionInfoTry(outcome) IN
  IF r.thrown THEN Return(Null) ELSE r

-----------------------------------------------------------------------------
(* getExtensionDownloadUrl                                                 *)

\* the default taken from the end of the versions sequence
TargetVersion_LastByDefault(versions, ver) ==
  IF TruthyStr(ver)
  THEN Find(versions, {i \in 1..Len(versions) : versions[i].version = ver.s})
  ELSE versions[Len(versions)]

\* version ? extension.versions.find(v => v.version === version)
\*         : extension.versions[0]
TargetVersion(versions, ver) ==
  IF TruthyStr(ver)
  THEN Find(versions, {i \in 1..Len(versions) : versions[i].version = ver.s})
  ELSE versions[1]

\* the last package asset of the list instead of the first
VsixFile_LastPackage(files) ==
  LET hits == {i \in 1..Len(files) :
                 files[i].assetType = EXTENSION_ASSET_TYPES.VSIX}
  IN IF hits = {} THEN Undefined
     ELSE files[CHOOSE i \in hits : \A j \in hits : j <= i]

\* the first file of the list, whatever its asset type
VsixFile_FirstFile(files) == IF Len(files) > 0 THEN files[1] ELSE Undefined

\* targetVersion.files.find(file => file.assetType === EXTENSION_ASSET_TYPES.VSIX)
VsixFile(files) ==
  Find(files, {i \in 1..Len(files) :
                 files[i].assetType = EXTENSION_ASSET_TYPES.VSIX})

\* the file name with the two names in the wrong order
FileName_NamesSwapped(ext, target) ==
  TemplateStr(ext.extensionName) \o <<".">> \o
  TemplateStr(ext.publisher.publisherName) \o <<"-">> \o
  TemplateStr(target.version) \o <<".vsix">>

\* `${publisherName}.${extensionName}-${version}.vsix`
FileName(ext, target) ==
  TemplateStr(ext.publisher.publisherName) \o <<".">> \o
  TemplateStr(ext.extensionName) \o <<"-">> \o
  TemplateStr(target.version) \o <<".vsix">>

\* the try block from the point where the awaited fetchExtensionInfo settles
\* with `fetched`
GetExtensionDownloadUrlTry(fetched, ver) ==
  LET ext == fetched.value IN
  IF fetched.thrown THEN Throw
  ELSE IF ext = Null THEN Return(Null)
  ELSE IF ext.versions = Undefined THEN Return(Null)
  ELSE IF Len(ext.versions.a) = 0 THEN Return(Null)
  ELSE LET target == TargetVersion(ext.versions.a, ver) IN
       IF target = Undefined THEN Return(Null)
       ELSE IF target.files = Undefined THEN Throw     \* undefined.find
       ELSE LET vsixFile == VsixFile(target.files.a) IN
            IF vsixFile = Undefined THEN Return(Null)
            ELSE IF ext.publisher = Undefined THEN Throw  \* undefined.publisherName
            ELSE Return([downloadUrl |-> vsixFile.source,
                         version     |-> target.version,
                         fileName    |-> FileName(ext, target)])

\* getExtensionDownloadUrl without its catch block
GetExtensionDownloadUrlSettle_NoCatch(fetched, ver) ==
  GetExtensionDownloadUrlTry(fetched, ver)

\* try { ... } catch (error) { return null }
GetExtensionDownloadUrlSettle(fetched, ver) ==
  LET r == GetExtensionDownloadUrlTry(fetched, ver) IN
  IF r.thrown THEN Return(Null) ELSE r

-----------------------------------------------------------------------------
(* downloadExtensionFile                                                   *)

\* a response body whose stream fails while it is read
Unreadable == [t |-> "unreadable"]

Blob(bytes) == [t |-> "blob", bytes |-> bytes]

\* the arguments of the calls: one URL under two file names
FileArgs ==
  {[downloadUrl |-> SourceOf(1, 1), filename |-> f] :
     f \in {<<"a.vsix">>, <<"b.vsix">>}}

\* a response body that can be read to its end
Readable(bytes) == [t |-> "readable", bytes |-> bytes]

FileBodies == {Readable(<<"bytes">>), Unreadable}

\* fetch(downloadUrl)
GetRequest(downloadUrl) == [url |-> downloadUrl, method |-> "GET"]

\* the download with the status check forgotten
DownloadExtensionFileTry_AnyStatus(outcome) ==
  IF outcome.kind = "throw" THEN Throw
  ELSE IF outcome.body = Unreadable THEN Throw
  ELSE Return(Blob(outcome.body.bytes))

\* the try block from the point where fetch() settles
DownloadExtensionFileTry(outcome) ==
  IF outcome.kind = "throw" THEN Throw
  ELSE IF ~outcome.ok THEN Return(Null)
  ELSE IF outcome.body = Unreadable THEN Throw         \* response.blob() rejects
  ELSE Return(Blob(outcome.body.bytes))

\* try { ... } catch (error) { return null }
DownloadExtensionFileSettle(outcome) ==
  LET r == DownloadExtensionFileTry(outcome) IN
  IF r.thrown THEN Return(Null) ELSE r

-----------------------------------------------------------------------------
(* The background dispatcher                                               *)

\* the download saved under the URL instead of the file name
DownloadOptions_NameFromUrl(info) ==
  [url |-> info.downloadUrl, filename |-> info.downloadUrl,
   saveAs |-> TRUE, conflictAction |-> "uniquify"]

\* the argument of chrome.downloads.download
DownloadOptions(info) ==
  [url |-> info.downloadUrl, filename |-> info.fileName,
   saveAs |-> TRUE, conflictAction |-> "uniquify"]

\* handleMessage from the point where getExtensionDownloadUrl settles with `got`:
\* the responses sent and the downloads started up to the next await
HandleMessageAfterUrl(got) ==
  IF got.thrown
  THEN [responses |-> <<[success |-> FALSE, error |-> "error.message"]>>,
        downloads |-> <<>>, pc |-> "done"]
  ELSE IF got.value = Null
  THEN [responses |-> <<[success |-> FALSE, error |-> "Failed to get download URL"]>>,
        downloads |-> <<>>, pc |-> "done"]
  ELSE [responses |-> <<>>,
        downloads |-> <<DownloadOptions(got.value)>>, pc |-> "download"]

\* success reported whether or not a download id came back
HandleMessageAfterDownload_IgnoresMissingId(info, outcome) ==
  IF outcome = "throw"
  THEN <<[success |-> FALSE, error |-> "error.message"]>>
  ELSE <<[success |-> TRUE, fileName |-> info.fileName]>>

\* handleMessage from the point where chrome.downloads.download settles
HandleMessageAfterDownload(info, outcome) ==
  IF outcome = "throw"
  THEN <<[success |-> FALSE, error |-> "error.message"]>>
  ELSE IF outcome = "id"
  THEN <<[success |-> TRUE, fileName |-> info.fileName]>>
  ELSE <<[success |-> FALSE, error |-> "Failed to start download"]>>

-----------------------------------------------------------------------------
(* URL strings and the platform's URL parser (new URL, URLSearchParams)    *)

CanonicalHost == "marketplace.visualstudio.com"

Schemes == {"https", "http"}

\* host names as written in a URL string, and their lower-case form
HostNames ==
  {"marketplace.visualstudio.com", "MARKETPLACE.VisualStudio.com",
   "www.google.com", "marketplace.visualstudio.com.example.org"}

ToLowerCase(h) ==
  IF h = "MARKETPLACE.VisualStudio.com" THEN "marketplace.visualstudio.com" ELSE h

Ports == {<<>>, <<":", "8080">>}

Paths ==
  {<<>>, <<"/">>, <<"/", "items">>, <<"/", "items", "/">>, <<"/", "Items">>,
   <<"/", "vscode">>, <<"/", "items", "/", "details">>}

Fragments == {<<>>, <<"#", "overview">>}

\* the characters of a parameter value: a letter, the separator, and the
\* separator percent-encoded
ValueTokens == {"a", ".", "%2E"}

\* one query parameter as written: its key, whether "=" follows, the raw value
Param(key, hasEq, value) == [key |-> key, hasEq |-> hasEq, value |-> value]

ItemNameParams ==
  {Param("itemName", FALSE, <<>>)} \cup
  {Param("itemName", TRUE, v) : v \in SeqUpTo(ValueTokens, MaxValueLen)}

OtherParams == {Param("itemname", TRUE, <<"a", ".", "a">>)}

\* every query of at most MaxParams parameters; the empty one is "?" alone
Queries == SeqUpTo(ItemNameParams \cup OtherParams, MaxParams)

FewQueries ==
  {<<>>, <<Param("itemName", TRUE, <<"a", ".", "a">>)>>,
   <<Param("itemname", TRUE, <<"a", ".", "a">>)>>}

UrlParts(scheme, host, port, path, hasQuery, query, fragment) ==
  [t |-> "parts", scheme |-> scheme, host |-> host, port |-> port, path |-> path,
   hasQuery |-> hasQuery, query |-> query, fragment |-> fragment]

\* the URL inputs: every host, port, path and fragment with a few queries, and
\* the detail page of the canonical host with every query
UrlInputs ==
  {UrlParts(sc, h, po, pa, q # <<>>, q, f) :
     sc \in Schemes, h \in HostNames, po \in Ports, pa \in Paths,
     q \in FewQueries, f \in Fragments} \cup
  {UrlParts("https", CanonicalHost, <<>>, pa, TRUE, q, <<>>) :
     pa \in {<<"/", "items">>, <<"/", "vscode">>}, q \in Queries} \cup
  {UrlParts("https", CanonicalHost, <<>>, <<"/", "items">>, FALSE, <<>>, <<>>)}

\* strings that are not URLs
RawInputs ==
  {[t |-> "raw", text |-> r] :
     r \in {<<>>, <<"not a url">>,
            <<"marketplace.visualstudio.com", "/", "items", "?", "itemName", "=",
              "a", ".", "a">>,
            <<"https", ":", "//">>,
            <<"/", "items", "?", "itemName", "=", "a", ".", "a">>}}

RECURSIVE JoinParams(_)
JoinParams(q) ==
  IF q = <<>> THEN <<>>
  ELSE LET p == Head(q)
           text == <<p.key>> \o (IF p.hasEq THEN <<"=">> \o p.value ELSE <<>>)
       IN IF Len(q) = 1 THEN text ELSE text \o <<"&">> \o JoinParams(Tail(q))

\* the URL string written from its parts
UrlString(in) ==
  IF in.t = "raw" THEN in.text
  ELSE <<in.scheme, ":", "//", in.host>> \o in.port \o in.path \o
       (IF in.hasQuery THEN <<"?">> \o JoinParams(in.query) ELSE <<>>) \o
       in.fragment

\* index of the first token of s, from position `from` on, that is in `stops`;
\* Len(s) + 1 when there is none
FirstOf(s, from, stops) ==
  IF \E i \in from..Len(s) : s[i] \in stops
  THEN CHOOSE i \in from..Len(s) :
         s[i] \in stops /\ \A j \in from..(i - 1) : s[j] \notin stops
  ELSE Len(s) + 1

InvalidUrl == [valid |-> FALSE, hostname |-> "", pathname |-> <<>>, search |-> <<>>]

\* new URL(s): scheme ":" "//" authority path "?" query "#" fragment
ParseUrl(s) ==
  IF Len(s) < 4 \/ s[1] \notin Schemes \/ s[2] # ":" \/ s[3] # "//" THEN InvalidUrl
  ELSE LET pathStart  == FirstOf(s, 4, {"/", "?", "#"})
           queryStart == FirstOf(s, pathStart, {"?", "#"})
           fragStart  == FirstOf(s, queryStart, {"#"})
           authority  == SubSeq(s, 4, pathStart - 1)
           path       == SubSeq(s, pathStart, queryStart - 1)
       IN IF authority = <<>> \/ authority[1] = ":" THEN InvalidUrl
          ELSE [valid    |-> TRUE,
                hostname |-> ToLowerCase(authority[1]),
                pathname |-> IF path = <<>> THEN <<"/">> ELSE path,
                search   |-> IF queryStart < fragStart
                             THEN SubSeq(s, queryStart + 1, fragStart - 1)
                             ELSE <<>>]

\* percent-decoding of a query component
PercentDecode(v) ==
  Tabulate(Len(v), [i \in 1..Len(v) |-> IF v[i] = "%2E" THEN "." ELSE v[i]])

\* one "key=value" piece of the query: split at the first "="
ParsePair(piece) ==
  LET e == IndexOf(piece, "=") IN
  IF e = 0 THEN [key |-> PercentDecode(piece), value |-> <<>>]
  ELSE [key   |-> PercentDecode(SubSeq(piece, 1, e - 1)),
        value |-> PercentDecode(SubSeq(piece, e + 1, Len(piece)))]

\* the query's pairs in order; empty pieces are skipped
SearchParams(search) ==
  LET pieces == SelectSeq(Split(search, "&"), LAMBDA piece : piece # <<>>) IN
  Tabulate(Len(pieces), [i \in 1..Len(pieces) |-> ParsePair(pieces[i])])

\* URLSearchParams.get(name): the value of the first pair named `name`, or null
SearchParamsGet(search, name) ==
  LET params == SearchParams(search)
      hit == Find(params, {i \in 1..Len(params) : params[i].key = <<name>>})
  IN IF hit = Undefined THEN Null ELSE Str(hit.value)

-----------------------------------------------------------------------------
(* extractExtensionIdFromUrl, isMarketplaceExtensionPage                   *)

\* the extraction without the host check
ExtractExtensionIdFromUrlTry_AnyHost(s) ==
  LET urlObj == ParseUrl(s) IN
  IF ~urlObj.valid THEN Throw
  ELSE LET itemName == SearchParamsGet(urlObj.search, "itemName") IN
       IF TruthyStr(itemName) THEN Return(itemName) ELSE Return(Null)

\* the extraction restricted to the detail path
ExtractExtensionIdFromUrlTry_DetailPathOnly(s) ==
  LET urlObj == ParseUrl(s) IN
  IF ~urlObj.valid THEN Throw
  ELSE IF urlObj.hostname = CanonicalHost /\ urlObj.pathname = <<"/", "items">>
  THEN LET itemName == SearchParamsGet(urlObj.search, "itemName") IN
       IF TruthyStr(itemName) THEN Return(itemName) ELSE Return(Null)
  ELSE Return(Null)

\* the try block of extractExtensionIdFromUrl
ExtractExtensionIdFromUrlTry(s) ==
  LET urlObj == ParseUrl(s) IN
  IF ~urlObj.valid THEN Throw
  ELSE IF urlObj.hostname = CanonicalHost
  THEN LET itemName == SearchParamsGet(urlObj.search, "itemName") IN
       IF TruthyStr(itemName) THEN Return(itemName) ELSE Return(Null)
  ELSE Return(Null)

\* try { ... } catch (error) { return null }
ExtractExtensionIdFromUrl(s) ==
  LET r == ExtractExtensionIdFromUrlTry(s) IN
  IF r.thrown THEN Return(Null) ELSE r

\* the page test without the path check
IsMarketplaceExtensionPageTry_HostOnly(s) ==
  LET urlObj == ParseUrl(s) IN
  IF ~urlObj.valid THEN Throw
  ELSE Return(Bool(urlObj.hostname = CanonicalHost))

\* the try block of isMarketplaceExtensionPage
IsMarketplaceExtensionPageTry(s) ==
  LET urlObj == ParseUrl(s) IN
  IF ~urlObj.valid THEN Throw
  ELSE Return(Bool(urlObj.hostname = CanonicalHost /\
                   urlObj.pathname = <<"/", "items">>))

\* try { ... } catch { return false }
IsMarketplaceExtensionPage(s) ==
  LET r == IsMarketplaceExtensionPageTry(s) IN
  IF r.thrown THEN Return(Bool(FALSE)) ELSE r

-----------------------------------------------------------------------------
(* The content script                                                      *)

Pages == 1..MaxPages

\* a detail page of the marketplace for the extension `id`
DetailPage(id) ==
  UrlParts("https", CanonicalHost, <<>>, <<"/", "items">>, TRUE,
           <<Param("itemName", TRUE, id)>>, <<>>)

\* the pages a tab may show: the detail pages of two extensions, the detail
\* path without an itemName, and the marketplace's root with and without an
\* itemName
PageHrefs ==
  {DetailPage(<<"a", ".", "a">>), DetailPage(<<"b", ".", "b">>),
   UrlParts("https", CanonicalHost, <<>>, <<"/", "items">>, FALSE, <<>>, <<>>),
   UrlParts("https", CanonicalHost, <<>>, <<"/">>, FALSE, <<>>, <<>>),
   UrlParts("https", CanonicalHost, <<>>, <<"/">>, TRUE,
            <<Param("itemName", TRUE, <<"a", ".", "a">>)>>, <<>>)}

\* extractExtensionIdFromUrl(window.location.href)
PageExtensionId(href) == ExtractExtensionIdFromUrl(UrlString(href)).value

\* isMarketplaceExtensionPage(window.location.href)
PageIsDetail(href) == IsMarketplaceExtensionPage(UrlString(href)).value.b

\* the injected elements of a page: the number of containers, whether the
\* loading indicator is displayed, whether the button is disabled, the class
\* of the status element ("hidden" when it is not displayed), and the number
\* of showStatus calls since the last showLoading
NoContainer ==
  [containers |-> 0, loading |-> FALSE, disabled |-> FALSE, status |-> "hidden",
   shows |-> 0]

\* showLoading that leaves the button enabled
ShowLoading_ButtonLeftEnabled(d) ==
  IF d.containers = 0 THEN d
  ELSE [d EXCEPT !.loading = TRUE, !.status = "hidden", !.shows = 0]

\* showLoading(): the elements are changed if they exist
ShowLoading(d) ==
  IF d.containers = 0 THEN d
  ELSE [d EXCEPT !.loading = TRUE, !.status = "hidden", !.disabled = TRUE,
                 !.shows = 0]

\* hideLoading()
HideLoading(d) ==
  IF d.containers = 0 THEN d
  ELSE [d EXCEPT !.loading = FALSE, !.disabled = FALSE]

\* showStatus(message, type)
ShowStatus(d, type) ==
  IF d.containers = 0 THEN d
  ELSE [d EXCEPT !.status = type, !.shows = @ + 1]

\* the responses chrome.runtime.sendMessage resolves with: the two shapes the
\* background sends, and undefined when no response was sent
SuccessResponse == [success |-> TRUE, fileName |-> <<"a.a-1.0.0.vsix">>]
FailureResponse == [success |-> FALSE, error |-> "Failed to get download URL"]

\* handleDownloadClick from the point where sendMessage resolves with
\* `reply` as response; response.success throws when it is undefined
HandleResponse(d, reply) ==
  IF reply = Undefined THEN HideLoading(ShowStatus(d, "error"))
  ELSE IF reply.success THEN HideLoading(ShowStatus(d, "success"))
  ELSE HideLoading(ShowStatus(d, "error"))

\* the request handleDownloadClick sends
DownloadRequest(id) == [type |-> "DOWNLOAD_EXTENSION", extensionId |-> id]

-----------------------------------------------------------------------------
(* The popup                                                               *)

\* the tabs the popup may be opened on: none (or one without url), the pages
\* of the marketplace, and the detail path of another site
Tabs ==
  {Undefined} \cup
  {[url |-> href] :
     href \in PageHrefs \cup
              {UrlParts("https", "www.google.com", <<>>, <<"/", "items">>, TRUE,
                        <<Param("itemName", TRUE, <<"a", ".", "a">>)>>, <<>>)}}

\* the records the popup renders: the publisher, the versions and the
\* statistics may each be missing
PopupRecords ==
  {[extensionName |-> <<"tool">>, publisher |-> pub, versions |-> vers,
    statistics |-> stats] :
     pub \in Publishers, vers \in {Undefined, Arr(<<>>)},
     stats \in {Undefined, Arr(<<>>)}}

\* the marketplace's answers to the popup's query
PopupBodies ==
  {Unparseable, [t |-> "object", results |-> Arr(<<[extensions |-> Arr(<<>>)]>>)]} \cup
  {[t |-> "object", results |-> Arr(<<[extensions |-> Arr(<<e>>)]>>)] :
     e \in PopupRecords}

\* building the details markup throws: extension.publisher.publisherName,
\* extension.versions[0] or statistics.find on undefined
RenderThrows(ext) ==
  \/ ext.publisher = Undefined
  \/ ext.versions = Undefined
  \/ ext.statistics = Undefined

\* the details shown, and the button enabled, whatever the fetch returned
ShowExtensionDetailsAfterFetch_NoNullCheck(id, ext) ==
  [downloadBtn |-> "enabled", currentExtensionId |-> id]

\* showExtensionDetails(id) from the point where fetchExtensionInfo resolved
\* with ext: the button and currentExtensionId it leaves
ShowExtensionDetailsAfterFetch(id, ext) ==
  IF ext = Null THEN [downloadBtn |-> "disabled", currentExtensionId |-> Null]
  ELSE IF RenderThrows(ext)
  THEN [downloadBtn |-> "disabled", currentExtensionId |-> Null]
  ELSE [downloadBtn |-> "enabled", currentExtensionId |-> id]

-----------------------------------------------------------------------------
(* Actions                                                                 *)

\* no client call has started: the caller's arguments and the marketplace's
\* answer are fixed, nothing has run
ClientIdle(ids, versions, bodies) ==
  /\ pc = "idle"
  /\ caller = "none"
  /\ extensionId \in ids
  /\ version \in versions
  /\ marketplace \in bodies
  /\ message = Undefined
  /\ network = <<>>
  /\ response = Pending
  /\ extension = Pending
  /\ downloadInfo = Pending
  /\ rejected = FALSE
  /\ downloads = <<>>
  /\ responses = <<>>
  /\ keptOpen = FALSE
  /\ downloadId = "none"

\* no URL operation has run on the URL written from one of `inputs`
UrlIdle(inputs) ==
  /\ urlInput \in inputs
  /\ url = UrlString(urlInput)
  /\ urlCall = "none"
  /\ urlResult = Pending
  /\ urlThrew = FALSE

\* downloadExtensionFile has not been called
FileIdle(args, bodies) ==
  /\ filePc = "idle"
  /\ fileArgs \in args
  /\ fileBody \in bodies
  /\ fileResponse = Pending
  /\ fileResult = Pending
  /\ fileRejected = FALSE

NoFileCall == FileIdle({[downloadUrl |-> SourceOf(1, 1), filename |-> <<"a.vsix">>]},
                       {Readable(<<"bytes">>)})

NoUrlCall == UrlIdle({[t |-> "raw", text |-> <<>>]})

\* the pages are open and their content scripts have not run; nothing is stored
PagesNew(hrefs) ==
  /\ pageHref \in [Pages -> hrefs]
  /\ hasInstall \in [Pages -> BOOLEAN]
  /\ pagePc = [p \in Pages |-> "new"]
  /\ getting = [p \in Pages |-> 0]
  /\ sending = [p \in Pages |-> 0]
  /\ dom = [p \in Pages |-> NoContainer]
  /\ ended = [p \in Pages |-> "none"]
  /\ storage = Undefined
  /\ clicks = 0
  /\ sent = <<>>

\* the popup has been opened on one of `tabs` and its script has not run
PopupNew(tabs) ==
  /\ tab \in tabs
  /\ popupPc = "new"
  /\ downloadBtn = "html"
  /\ currentExtensionId = Null
  /\ popupExtension = Pending
  /\ popupClicks = 0
  /\ popupSent = <<>>

\* no popup is open
NoPopup ==
  /\ tab = Undefined
  /\ popupPc = "off"
  /\ downloadBtn = "html"
  /\ currentExtensionId = Null
  /\ popupExtension = Pending
  /\ popupClicks = 0
  /\ popupSent = <<>>

\* no page runs a content script
NoPages ==
  /\ pageHref = [p \in Pages |-> DetailPage(<<"a", ".", "a">>)]
  /\ hasInstall = [p \in Pages |-> TRUE]
  /\ pagePc = [p \in Pages |-> "off"]
  /\ getting = [p \in Pages |-> 0]
  /\ sending = [p \in Pages |-> 0]
  /\ dom = [p \in Pages |-> NoContainer]
  /\ ended = [p \in Pages |-> "none"]
  /\ storage = Undefined
  /\ clicks = 0
  /\ sent = <<>>

Init ==
  /\ ClientIdle(ExtensionIds, {Undefined}, ShapeBodies)
  /\ NoUrlCall
  /\ NoFileCall
  /\ NoPages
  /\ NoPopup

\* what the caller `who` does once its fetchExtensionInfo call settled with
\* `fetched`, up to its next await or its end
Continue(who, ver, fetched) ==
  /\ extension' = IF fetched.thrown THEN Pending ELSE fetched.value
  /\ IF who = "fetchExtensionInfo"
     THEN /\ rejected' = fetched.thrown
          /\ pc' = "done"
          /\ UNCHANGED <<downloadInfo, downloads, responses>>
     ELSE LET got == GetExtensionDownloadUrlSettle(fetched, ver) IN
          /\ downloadInfo' = IF got.thrown THEN Pending ELSE got.value
          /\ IF who = "getExtensionDownloadUrl"
             THEN /\ rejected' = got.thrown
                  /\ pc' = "done"
                  /\ UNCHANGED <<downloads, responses>>
             ELSE LET next == HandleMessageAfterUrl(got) IN
                  /\ rejected' = FALSE
                  /\ pc' = next.pc
                  /\ downloads' = downloads \o next.downloads
                  /\ responses' = responses \o next.responses

\* fetchExtensionInfo sending its query a second time
StartFetchExtensionInfo_QueryTwice(who, id, ver) ==
  IF InvalidIdFormat(id)
  THEN /\ Continue(who, ver, Return(Null))
       /\ UNCHANGED <<network, response>>
  ELSE /\ network' = network \o <<MarketplaceQuery(id), MarketplaceQuery(id)>>
       /\ pc' = "fetch"
       /\ UNCHANGED <<response, extension, downloadInfo, rejected,
                      downloads, responses>>

\* fetchExtensionInfo(id) up to its first await: the format check, then fetch()
StartFetchExtensionInfo(who, id, ver) ==
  IF InvalidIdFormat(id)
  THEN /\ Continue(who, ver, Return(Null))
       /\ UNCHANGED <<network, response>>
  ELSE /\ network' = Append(network, MarketplaceQuery(id))
       /\ pc' = "fetch"
       /\ UNCHANGED <<response, extension, downloadInfo, rejected,
                      downloads, responses>>

\* a caller (the popup) invokes fetchExtensionInfo(extensionId)
CallFetchExtensionInfo ==
  /\ pc = "idle"
  /\ caller' = "fetchExtensionInfo"
  /\ StartFetchExtensionInfo("fetchExtensionInfo", extensionId, Undefined)
  /\ UNCHANGED <<extensionId, version, marketplace, message, keptOpen, downloadId>>
  /\ UNCHANGED <<urlVars, fileVars, pageVars, popupVars>>

\* a caller invokes getExtensionDownloadUrl(extensionId, version)
CallGetExtensionDownloadUrl ==
  /\ pc = "idle"
  /\ caller' = "getExtensionDownloadUrl"
  /\ StartFetchExtensionInfo("getExtensionDownloadUrl", extensionId, version)
  /\ UNCHANGED <<extensionId, version, marketplace, message, keptOpen, downloadId>>
  /\ UNCHANGED <<urlVars, fileVars, pageVars, popupVars>>

\* chrome.runtime.onMessage listener, for a message of type `type` carrying
\* extensionId: handleMessage(request, sender, sendResponse); return true
OnMessage(type) ==
  /\ pc = "idle"
  /\ message' = [type |-> type, extensionId |-> extensionId]
  /\ caller' = "handleMessage"
  /\ keptOpen' = TRUE
  /\ UNCHANGED downloadId
  /\ IF type = "DOWNLOAD_EXTENSION"
     THEN StartFetchExtensionInfo("handleMessage", extensionId, Undefined)
     ELSE /\ pc' = "done"
          /\ UNCHANGED <<network, response, extension, downloadInfo, rejected,
                         downloads, responses>>
  /\ UNCHANGED <<extensionId, version, marketplace>>
  /\ UNCHANGED <<urlVars, fileVars, pageVars, popupVars>>

\* a DOWNLOAD_EXTENSION request arrives
OnDownloadMessage == OnMessage("DOWNLOAD_EXTENSION")

\* a message of another type arrives
OnOtherMessage == OnMessage("OTHER")

\* fetch() settles with `outcome`: the rest of fetchExtensionInfo, then its
\* caller goes on
FetchSettles(outcome) ==
  /\ pc = "fetch"
  /\ response' = outcome
  /\ Continue(caller, version, FetchExtensionInfoSettle(outcome))
  /\ UNCHANGED <<caller, extensionId, version, marketplace, message, network,
                 keptOpen, downloadId>>
  /\ UNCHANGED <<urlVars, fileVars, pageVars, popupVars>>

\* the request fails: fetch() rejects
FetchRejects == FetchSettles(FetchRejected)

\* the marketplace answers with a non-success status
FetchRespondsError == FetchSettles(FetchResponse(FALSE, marketplace))

\* the marketplace answers with a success status
FetchRespondsOk == FetchSettles(FetchResponse(TRUE, marketplace))

\* chrome.downloads.download settles with `outcome`: the rest of handleMessage
DownloadSettles(outcome) ==
  /\ pc = "download"
  /\ responses' = responses \o HandleMessageAfterDownload(downloadInfo, outcome)
  /\ downloadId' = outcome
  /\ pc' = "done"
  /\ UNCHANGED <<caller, extensionId, version, marketplace, message, network,
                 response, extension, downloadInfo, rejected, downloads, keptOpen>>
  /\ UNCHANGED <<urlVars, fileVars, pageVars, popupVars>>

\* the download starts and its id comes back
DownloadStarts == DownloadSettles("id")

\* the download call resolves without an id
DownloadWithoutId == DownloadSettles("noId")

\* the download call rejects
DownloadRejects == DownloadSettles("throw")

\* a caller invokes extractExtensionIdFromUrl(url)
CallExtractExtensionIdFromUrl ==
  /\ urlCall = "none"
  /\ LET r == ExtractExtensionIdFromUrl(url) IN
       /\ urlResult' = IF r.thrown THEN Pending ELSE r.value
       /\ urlThrew' = r.thrown
  /\ urlCall' = "extractExtensionIdFromUrl"
  /\ UNCHANGED <<urlInput, url>>
  /\ UNCHANGED <<clientVars, fileVars, pageVars, popupVars>>

\* a caller invokes isMarketplaceExtensionPage(url)
CallIsMarketplaceExtensionPage ==
  /\ urlCall = "none"
  /\ LET r == IsMarketplaceExtensionPage(url) IN
       /\ urlResult' = IF r.thrown THEN Pending ELSE r.value
       /\ urlThrew' = r.thrown
  /\ urlCall' = "isMarketplaceExtensionPage"
  /\ UNCHANGED <<urlInput, url>>
  /\ UNCHANGED <<clientVars, fileVars, pageVars, popupVars>>

\* a caller invokes downloadExtensionFile(downloadUrl, filename): fetch()
CallDownloadExtensionFile ==
  /\ filePc = "idle"
  /\ network' = Append(network, GetRequest(fileArgs.downloadUrl))
  /\ filePc' = "fetch"
  /\ UNCHANGED <<fileArgs, fileBody, fileResponse, fileResult, fileRejected>>
  /\ UNCHANGED <<pc, caller, extensionId, version, marketplace, message, response,
                 extension, downloadInfo, rejected, downloads, downloadId,
                 responses, keptOpen>>
  /\ UNCHANGED <<urlVars, pageVars, popupVars>>

\* the GET settles with `outcome`: the rest of downloadExtensionFile
FileFetchSettles(outcome) ==
  /\ filePc = "fetch"
  /\ fileResponse' = outcome
  /\ LET r == DownloadExtensionFileSettle(outcome) IN
       /\ fileResult' = IF r.thrown THEN Pending ELSE r.value
       /\ fileRejected' = r.thrown
  /\ filePc' = "done"
  /\ UNCHANGED <<fileArgs, fileBody>>
  /\ UNCHANGED <<clientVars, urlVars, pageVars, popupVars>>

\* the GET fails: fetch() rejects
FileFetchRejects == FileFetchSettles(FetchRejected)

\* the file server answers with a non-success status
FileRespondsError == FileFetchSettles(FetchResponse(FALSE, fileBody))

\* the file server answers with a success status
FileRespondsOk == FileFetchSettles(FetchResponse(TRUE, fileBody))

\* initialize() on page p: on a detail page the injection is scheduled, by the
\* DOMContentLoaded listener or by the timer as `readyState` tells
Initialize(p, readyState) ==
  /\ pagePc[p] = "new"
  /\ pagePc' = [pagePc EXCEPT ![p] =
                  IF ~PageIsDetail(pageHref[p]) THEN "off"
                  ELSE IF readyState = "loading" THEN "listening" ELSE "timer"]
  /\ UNCHANGED <<pageHref, hasInstall, getting, sending, dom, ended, storage,
                 clicks, sent>>
  /\ UNCHANGED <<clientVars, urlVars, fileVars, popupVars>>

\* the script starts while the document is loading
InitializeLoading(p) == Initialize(p, "loading")

\* the script starts after the document was loaded
InitializeLoaded(p) == Initialize(p, "complete")

\* the injection with the install button not looked for
InjectDownloadButton_AnyPage(p) ==
  /\ LET id == PageExtensionId(pageHref[p]) IN
     IF dom[p].containers > 0 \/ ~TruthyStr(id)
     THEN /\ pagePc' = [pagePc EXCEPT ![p] = "off"]
          /\ UNCHANGED storage
     ELSE /\ storage' = id
          /\ pagePc' = [pagePc EXCEPT ![p] = "styling"]
  /\ UNCHANGED <<pageHref, hasInstall, getting, sending, dom, ended, clicks, sent>>
  /\ UNCHANGED <<clientVars, urlVars, fileVars, popupVars>>

\* injectDownloadButton() on page p up to its first await: nothing is done when
\* a container exists; the identifier is taken from the URL and stored, then
\* the install button is looked for
InjectDownloadButton(p) ==
  /\ LET id == PageExtensionId(pageHref[p]) IN
     IF dom[p].containers > 0 \/ ~TruthyStr(id)
     THEN /\ pagePc' = [pagePc EXCEPT ![p] = "off"]
          /\ UNCHANGED storage
     ELSE /\ storage' = id
          /\ pagePc' = [pagePc EXCEPT ![p] = IF hasInstall[p]
                                            THEN "styling" ELSE "off"]
  /\ UNCHANGED <<pageHref, hasInstall, getting, sending, dom, ended, clicks, sent>>
  /\ UNCHANGED <<clientVars, urlVars, fileVars, popupVars>>

\* DOMContentLoaded fires on page p: the listener runs the injection
DomContentLoaded(p) == pagePc[p] = "listening" /\ InjectDownloadButton(p)

\* the one-second timer of page p fires and runs the injection
TimerFires(p) == pagePc[p] = "timer" /\ InjectDownloadButton(p)

\* the settings are loaded and the styles injected: the container with the
\* button, the loading indicator and the status element is inserted
InsertButton(p) ==
  /\ pagePc[p] = "styling"
  /\ pagePc' = [pagePc EXCEPT ![p] = "ready"]
  /\ dom' = [dom EXCEPT ![p].containers = @ + 1]
  /\ UNCHANGED <<pageHref, hasInstall, getting, sending, ended, storage, clicks,
                 sent>>
  /\ UNCHANGED <<clientVars, urlVars, fileVars, popupVars>>

\* the user clicks the injected button of page p, which is not disabled:
\* handleDownloadClick() up to its await of chrome.storage.local.get
HandleDownloadClick(p) ==
  /\ dom[p].containers > 0
  /\ ~dom[p].disabled
  /\ clicks < MaxClicks
  /\ clicks' = clicks + 1
  /\ dom' = [dom EXCEPT ![p] = ShowLoading(@)]
  /\ getting' = [getting EXCEPT ![p] = @ + 1]
  /\ UNCHANGED <<pageHref, hasInstall, pagePc, sending, ended, storage, sent>>
  /\ UNCHANGED <<clientVars, urlVars, fileVars, popupVars>>

\* chrome.storage.local.get resolves for a click handler of page p: the
\* request is sent with the stored identifier; without one the handler ends
StorageGetResolves(p) ==
  /\ getting[p] > 0
  /\ getting' = [getting EXCEPT ![p] = @ - 1]
  /\ IF TruthyStr(storage)
     THEN /\ sent' = Append(sent, [page |-> p, message |-> DownloadRequest(storage.s)])
          /\ sending' = [sending EXCEPT ![p] = @ + 1]
          /\ UNCHANGED <<dom, ended>>
     ELSE /\ dom' = [dom EXCEPT ![p] = HideLoading(ShowStatus(@, "error"))]
          /\ ended' = [ended EXCEPT ![p] = "noId"]
          /\ UNCHANGED <<sent, sending>>
  /\ UNCHANGED <<pageHref, hasInstall, pagePc, storage, clicks>>
  /\ UNCHANGED <<clientVars, urlVars, fileVars, popupVars>>

\* a click handler of page p ends in its catch block
HandlerCatches(p, how) ==
  /\ dom' = [dom EXCEPT ![p] = HideLoading(ShowStatus(@, "error"))]
  /\ ended' = [ended EXCEPT ![p] = how]
  /\ UNCHANGED <<pageHref, hasInstall, pagePc, storage, clicks, sent>>
  /\ UNCHANGED <<clientVars, urlVars, fileVars, popupVars>>

\* chrome.storage.local.get rejects
StorageGetRejects(p) ==
  /\ getting[p] > 0
  /\ getting' = [getting EXCEPT ![p] = @ - 1]
  /\ UNCHANGED sending
  /\ HandlerCatches(p, "getRejected")

\* chrome.runtime.sendMessage rejects
SendMessageRejects(p) ==
  /\ sending[p] > 0
  /\ sending' = [sending EXCEPT ![p] = @ - 1]
  /\ UNCHANGED getting
  /\ HandlerCatches(p, "sendRejected")

\* chrome.runtime.sendMessage resolves with `reply`: the rest of the handler
ResponseArrives(p, reply, how) ==
  /\ sending[p] > 0
  /\ sending' = [sending EXCEPT ![p] = @ - 1]
  /\ dom' = [dom EXCEPT ![p] = HandleResponse(@, reply)]
  /\ ended' = [ended EXCEPT ![p] = how]
  /\ UNCHANGED <<pageHref, hasInstall, pagePc, getting, storage, clicks, sent>>
  /\ UNCHANGED <<clientVars, urlVars, fileVars, popupVars>>

\* the background answers that the download started
ResponseSuccess(p) == ResponseArrives(p, SuccessResponse, "success")

\* the background answers with a failure
ResponseFailure(p) == ResponseArrives(p, FailureResponse, "failure")

\* the channel is closed without a response: sendMessage resolves with undefined
ResponseMissing(p) == ResponseArrives(p, Undefined, "noResponse")

\* what showExtensionDetails does once fetchExtensionInfo resolved with ext
PopupShows(id, ext) ==
  LET shown == ShowExtensionDetailsAfterFetch(id, ext) IN
  /\ popupExtension' = ext
  /\ downloadBtn' = shown.downloadBtn
  /\ currentExtensionId' = shown.currentExtensionId
  /\ popupPc' = "idle"

\* checkCurrentTab(): the tab is classified, the identifier extracted and
\* showExtensionDetails called, up to the await of fetch()
CheckCurrentTab ==
  /\ popupPc = "new"
  /\ LET id == IF tab = Undefined THEN Null ELSE PageExtensionId(tab.url) IN
     IF tab = Undefined \/ ~PageIsDetail(tab.url) \/ ~TruthyStr(id)
     THEN /\ popupPc' = "idle"
          /\ UNCHANGED <<downloadBtn, currentExtensionId, popupExtension, network>>
     ELSE IF InvalidIdFormat(id.s)
     THEN /\ PopupShows(id, Null)
          /\ UNCHANGED network
     ELSE /\ network' = Append(network, MarketplaceQuery(id.s))
          /\ downloadBtn' = "disabled"
          /\ popupPc' = "fetch"
          /\ UNCHANGED <<currentExtensionId, popupExtension>>
  /\ UNCHANGED <<tab, popupClicks, popupSent>>
  /\ UNCHANGED <<pc, caller, extensionId, version, marketplace, message, response,
                 extension, downloadInfo, rejected, downloads, downloadId,
                 responses, keptOpen>>
  /\ UNCHANGED <<urlVars, fileVars, pageVars>>

\* the popup's fetch() settles with `outcome`: the rest of fetchExtensionInfo
\* and of showExtensionDetails
PopupFetchSettles(outcome) ==
  /\ popupPc = "fetch"
  /\ PopupShows(PageExtensionId(tab.url), FetchExtensionInfoSettle(outcome).value)
  /\ UNCHANGED <<tab, popupClicks, popupSent>>
  /\ UNCHANGED <<clientVars, urlVars, fileVars, pageVars>>

\* the popup's query fails
PopupFetchRejects == PopupFetchSettles(FetchRejected)

\* the popup's query is answered with a non-success status
PopupFetchRespondsError == PopupFetchSettles(FetchResponse(FALSE, marketplace))

\* the popup's query is answered with a success status
PopupFetchRespondsOk == PopupFetchSettles(FetchResponse(TRUE, marketplace))

\* the user clicks the popup's download button, which is not disabled:
\* handleDownload() up to its await of sendMessage
HandleDownload ==
  /\ popupPc \in {"new", "idle"}
  /\ downloadBtn # "disabled"
  /\ popupClicks < MaxClicks
  /\ popupClicks' = popupClicks + 1
  /\ IF currentExtensionId = Null
     THEN UNCHANGED <<popupPc, downloadBtn, popupSent>>
     ELSE /\ downloadBtn' = "disabled"
          /\ popupSent' = Append(popupSent, DownloadRequest(currentExtensionId.s))
          /\ popupPc' = "sending"
  /\ UNCHANGED <<tab, currentExtensionId, popupExtension>>
  /\ UNCHANGED <<clientVars, urlVars, fileVars, pageVars>>

\* sendMessage settles, with any response or a rejection: the button text is
\* changed and the reset of the button is scheduled
PopupResponseArrives ==
  /\ popupPc = "sending"
  /\ popupPc' = "timer"
  /\ UNCHANGED <<tab, downloadBtn, currentExtensionId, popupExtension, popupClicks,
                 popupSent>>
  /\ UNCHANGED <<clientVars, urlVars, fileVars, pageVars>>

\* two seconds later the button is enabled again
PopupTimerFires ==
  /\ popupPc = "timer"
  /\ downloadBtn' = "enabled"
  /\ popupPc' = "idle"
  /\ UNCHANGED <<tab, currentExtensionId, popupExtension, popupClicks, popupSent>>
  /\ UNCHANGED <<clientVars, urlVars, fileVars, pageVars>>

\* the client's fetch operation and the background dispatcher, for every
\* identifier and every shape of the marketplace's answer
Next ==
  \/ CallFetchExtensionInfo
  \/ OnDownloadMessage
  \/ OnOtherMessage
  \/ FetchRejects
  \/ FetchRespondsError
  \/ FetchRespondsOk
  \/ DownloadStarts
  \/ DownloadWithoutId
  \/ DownloadRejects

Spec == Init /\ [][Next]_vars

\* download resolution for a well-formed identifier, over every version
\* argument and every record
InitResolve ==
  /\ ClientIdle({WellFormedId}, VersionArgs, RichBodies)
  /\ NoUrlCall
  /\ NoFileCall
  /\ NoPages
  /\ NoPopup

NextResolve ==
  \/ CallGetExtensionDownloadUrl
  \/ FetchRejects
  \/ FetchRespondsError
  \/ FetchRespondsOk

SpecResolve == InitResolve /\ [][NextResolve]_vars

\* the two URL operations over the URL inputs and the strings that are no URLs
InitUrl ==
  /\ ClientIdle({WellFormedId}, {Undefined}, {Unparseable})
  /\ UrlIdle(UrlInputs \cup RawInputs)
  /\ NoFileCall
  /\ NoPages
  /\ NoPopup

NextUrl ==
  \/ CallExtractExtensionIdFromUrl
  \/ CallIsMarketplaceExtensionPage

SpecUrl == InitUrl /\ [][NextUrl]_vars

\* the URLs of the client runs: no URL, the detail page of an extension, the
\* same page of another site
ClientUrls ==
  {[t |-> "raw", text |-> <<"not a url">>]} \cup
  {UrlParts("https", h, <<>>, <<"/", "items">>, TRUE,
            <<Param("itemName", TRUE, <<"a", ".", "a">>)>>, <<>>) :
     h \in {CanonicalHost, "www.google.com"}}

\* the five operations of the client, each called once, over the malformed
\* inputs and the incomplete answers as well as the good ones
InitClient ==
  /\ ClientIdle({WellFormedId, <<"a">>}, VersionArgs, ClientBodies)
  /\ UrlIdle(ClientUrls)
  /\ FileIdle(FileArgs, FileBodies)
  /\ NoPages
  /\ NoPopup

NextClient ==
  \/ CallFetchExtensionInfo
  \/ CallGetExtensionDownloadUrl
  \/ FetchRejects
  \/ FetchRespondsError
  \/ FetchRespondsOk
  \/ CallExtractExtensionIdFromUrl
  \/ CallIsMarketplaceExtensionPage
  \/ CallDownloadExtensionFile
  \/ FileFetchRejects
  \/ FileRespondsError
  \/ FileRespondsOk

SpecClient == InitClient /\ [][NextClient]_vars

\* the content scripts of the open pages, in every interleaving of their
\* steps and of the user's clicks
InitPages ==
  /\ ClientIdle({WellFormedId}, {Undefined}, {Unparseable})
  /\ NoUrlCall
  /\ NoFileCall
  /\ PagesNew(PageHrefs)
  /\ NoPopup

NextPages ==
  \/ \E p \in Pages : InitializeLoading(p)
  \/ \E p \in Pages : InitializeLoaded(p)
  \/ \E p \in Pages : DomContentLoaded(p)
  \/ \E p \in Pages : TimerFires(p)
  \/ \E p \in Pages : InsertButton(p)
  \/ \E p \in Pages : HandleDownloadClick(p)
  \/ \E p \in Pages : StorageGetResolves(p)
  \/ \E p \in Pages : StorageGetRejects(p)
  \/ \E p \in Pages : ResponseSuccess(p)
  \/ \E p \in Pages : ResponseFailure(p)
  \/ \E p \in Pages : ResponseMissing(p)
  \/ \E p \in Pages : SendMessageRejects(p)

SpecPages == InitPages /\ [][NextPages]_vars

\* the popup, opened on every tab, with every answer to its query
InitPopup ==
  /\ ClientIdle({WellFormedId}, {Undefined}, PopupBodies)
  /\ NoUrlCall
  /\ NoFileCall
  /\ NoPages
  /\ PopupNew(Tabs)

NextPopup ==
  \/ CheckCurrentTab
  \/ PopupFetchRejects
  \/ PopupFetchRespondsError
  \/ PopupFetchRespondsOk
  \/ HandleDownload
  \/ PopupResponseArrives
  \/ PopupTimerFires

SpecPopup == InitPopup /\ [][NextPopup]_vars

-----------------------------------------------------------------------------
(* Properties of fetchExtensionInfo                                        *)

\* fetchExtensionInfo has been called, directly or through a caller
FetchCalled ==
  \/ caller \in {"fetchExtensionInfo", "getExtensionDownloadUrl"}
  \/ caller = "handleMessage" /\ message.type = "DOWNLOAD_EXTENSION"

\* no '.', or nothing before the first '.', or nothing after it
MalformedId(id) ==
  LET i == IndexOf(id, ".") IN i = 0 \/ i = 1 \/ i = Len(id)

\* C1: a call of fetchExtensionInfo with an identifier that has no '.', an empty
\* publisher half or an empty name half has returned null, and no network
\* request was issued at any point of the call.
C1_MalformedIdNoRequest ==
  (FetchCalled /\ MalformedId(extensionId)) =>
    /\ network = <<>>
    /\ pc = "done"
    /\ extension = Null
    /\ ~rejected

\* fetchExtensionInfo("a.") has returned null
C1_Witness ==
  /\ caller = "fetchExtensionInfo"
  /\ extensionId = <<"a", ".">>
  /\ pc = "done"
  /\ extension = Null
  /\ network = <<>>

TransportFailure ==
  /\ response # Pending
  /\ response.kind = "throw" \/ ~response.ok

\* C5: for a well-formed identifier, when the query fails at transport level
\* (fetch rejects, or the response is not ok), fetchExtensionInfo returns null
\* and its promise is not rejected.
C5_TransportFailureIsNull ==
  TransportFailure =>
    /\ extension = Null
    /\ caller = "fetchExtensionInfo" => (pc = "done" /\ ~rejected)

\* fetchExtensionInfo returned null after fetch() rejected
C5_Witness ==
  /\ caller = "fetchExtensionInfo"
  /\ pc = "done"
  /\ response # Pending
  /\ response.kind = "throw"
  /\ extension = Null
  /\ Len(network) = 1

SuccessBody == response # Pending /\ response.kind = "response" /\ response.ok

\* the body holds results[0].extensions[0]
HasFirstExtension(body) ==
  /\ body.t = "object"
  /\ body.results # Undefined
  /\ Len(body.results.a) > 0
  /\ body.results.a[1].extensions # Undefined
  /\ Len(body.results.a[1].extensions.a) > 0

\* C6: on a success response whose body is an object, fetchExtensionInfo returns
\* null when there is no results array, no first result, no extensions array in
\* the first result or no element in it, and otherwise the first element of
\* results[0].extensions, never a later element or an element of a later result.
C6_FirstExtensionOrNull ==
  (SuccessBody /\ response.body.t = "object") =>
    extension = IF HasFirstExtension(response.body)
                THEN response.body.results.a[1].extensions.a[1]
                ELSE Null

\* the first of two records of the first of two results was returned
C6_Witness ==
  /\ caller = "fetchExtensionInfo"
  /\ SuccessBody
  /\ response.body.t = "object"
  /\ response.body.results =
       Arr(<<[extensions |-> Arr(<<RecordA, RecordB>>)],
             [extensions |-> Arr(<<RecordB>>)]>>)
  /\ extension = RecordA

\* C11: an identifier is rejected exactly when it has no '.', nothing before
\* its first '.' or nothing after its first '.'; every other identifier, also
\* one whose name half contains or starts with a further '.', is queried with
\* the whole identifier as the filter value.
C11_RejectsExactlyEmptyHalves ==
  FetchCalled =>
    /\ (network = <<>>) <=> MalformedId(extensionId)
    /\ network # <<>> => network[1].value = extensionId

\* bitwise or of two naturals
RECURSIVE BitOr(_, _)
BitOr(a, b) ==
  IF a = 0 THEN b
  ELSE IF b = 0 THEN a
  ELSE (IF a % 2 = 1 \/ b % 2 = 1 THEN 1 ELSE 0) + 2 * BitOr(a \div 2, b \div 2)

\* the number of bits set in a natural
RECURSIVE BitCount(_)
BitCount(a) == IF a = 0 THEN 0 ELSE (a % 2) + BitCount(a \div 2)

\* the flags named in the comment next to the flags field:
\* 0x000002 | 0x000008 | 0x000200 | 0x000800
CommentedFlags == <<2, 8, 512, 2048>>

\* C15: the flags field of every marketplace query is 914, and 914 is the union
\* of exactly four single-bit flags, the union 0x2 | 0x8 | 0x200 | 0x800 written
\* next to it.
C15_FlagsAreCommentedUnion ==
  \A i \in 1..Len(network) :
    /\ network[i].flags = 914
    /\ BitCount(network[i].flags) = 4
    /\ network[i].flags =
         BitOr(BitOr(CommentedFlags[1], CommentedFlags[2]),
               BitOr(CommentedFlags[3], CommentedFlags[4]))

-----------------------------------------------------------------------------
(* Properties of getExtensionDownloadUrl                                   *)

Resolved == caller = "getExtensionDownloadUrl" /\ pc = "done"

IsDescriptor(d) == d # Pending /\ d # Null

HasVersions ==
  /\ extension # Pending
  /\ extension # Null
  /\ extension.versions # Undefined
  /\ Len(extension.versions.a) > 0

\* the descriptor's URL is the source of a file of version i of the record
UrlFromVersion(i) ==
  LET v == extension.versions.a[i] IN
  /\ v.files # Undefined
  /\ \E j \in 1..Len(v.files.a) : v.files.a[j].source = downloadInfo.downloadUrl

\* version i has a file list with a package asset
HasPackage(i) ==
  LET v == extension.versions.a[i] IN
  /\ v.files # Undefined
  /\ \E j \in 1..Len(v.files.a) :
       v.files.a[j].assetType = "Microsoft.VisualStudio.Services.VSIXPackage"

\* C2 as stated: whatever version string the caller supplies, a returned
\* descriptor reports that version.
C2_AnyVersionStringMatched ==
  (Resolved /\ version # Undefined /\ IsDescriptor(downloadInfo)) =>
    downloadInfo.version = version.s

\* C2, amended: with no version or the empty string as version, the first entry
\* of the versions sequence is selected as it stands; with a non-empty version
\* string the selected entry has exactly that version string, and the result is
\* null when no entry has it.
C2_VersionSelection ==
  (Resolved /\ HasVersions) =>
    LET vs == extension.versions.a IN
    IF TruthyStr(version)
    THEN /\ IsDescriptor(downloadInfo) =>
              /\ downloadInfo.version = version.s
              /\ \E i \in 1..Len(vs) : vs[i].version = version.s /\ UrlFromVersion(i)
         /\ (\A i \in 1..Len(vs) : vs[i].version # version.s) => downloadInfo = Null
    ELSE /\ IsDescriptor(downloadInfo) =>
              /\ downloadInfo.version = vs[1].version
              /\ UrlFromVersion(1)
         /\ (HasPackage(1) /\ extension.publisher # Undefined) =>
              IsDescriptor(downloadInfo)

\* version "1.0.0" was requested and found behind a "2.0.0" entry
C2_Witness ==
  /\ Resolved
  /\ HasVersions
  /\ version = Str(<<"1.0.0">>)
  /\ Len(extension.versions.a) = 2
  /\ extension.versions.a[1].version = <<"2.0.0">>
  /\ IsDescriptor(downloadInfo)
  /\ downloadInfo.version = <<"1.0.0">>
  /\ UrlFromVersion(2)

\* the index of the version the call selects, 0 when there is none
SelectedIndex ==
  LET vs == extension.versions.a IN
  IF TruthyStr(version)
  THEN IF \E i \in 1..Len(vs) : vs[i].version = version.s
       THEN CHOOSE i \in 1..Len(vs) :
              vs[i].version = version.s /\
              \A j \in 1..(i - 1) : vs[j].version # version.s
       ELSE 0
  ELSE 1

\* C3: when the selected version's file list has no entry of the package asset
\* type, the result is null although the version was found; the URL of a
\* descriptor is never the source of a manifest, icon, license or details entry.
C3_NoPackageIsNull ==
  (Resolved /\ HasVersions) =>
    LET vs == extension.versions.a IN
    /\ (SelectedIndex > 0 /\ vs[SelectedIndex].files # Undefined /\
        ~HasPackage(SelectedIndex)) => downloadInfo = Null
    /\ IsDescriptor(downloadInfo) =>
         \A i \in 1..Len(vs) :
           vs[i].files # Undefined =>
             \A j \in 1..Len(vs[i].files.a) :
               vs[i].files.a[j].source = downloadInfo.downloadUrl =>
                 vs[i].files.a[j].assetType =
                   "Microsoft.VisualStudio.Services.VSIXPackage"

\* the first version was selected, holds files but no package, and null came back
C3_Witness ==
  /\ Resolved
  /\ HasVersions
  /\ version = Undefined
  /\ extension.versions.a[1].files # Undefined
  /\ Len(extension.versions.a[1].files.a) = 2
  /\ ~HasPackage(1)
  /\ downloadInfo = Null

\* C4: the fileName of every descriptor is publisherName "." extensionName "-"
\* version ".vsix", with the names of the fetched record (not the halves of the
\* requested identifier) and the version the descriptor reports.
C4_FileNameFormat ==
  (Resolved /\ IsDescriptor(downloadInfo)) =>
    /\ downloadInfo.fileName =
         extension.publisher.publisherName \o <<".">> \o extension.extensionName \o
         <<"-">> \o downloadInfo.version \o <<".vsix">>
    /\ \E i \in 1..Len(extension.versions.a) :
         extension.versions.a[i].version = downloadInfo.version

\* acme.tool-2.0.0.vsix was synthesized for the request of "a.a"
C4_Witness ==
  /\ Resolved
  /\ IsDescriptor(downloadInfo)
  /\ extensionId = <<"a", ".", "a">>
  /\ downloadInfo.fileName = <<"acme", ".", "tool", "-", "2.0.0", ".vsix">>

\* C12: the result of getExtensionDownloadUrl is null or a complete descriptor:
\* its downloadUrl and version are defined, and its fileName is built from a
\* defined publisher name, extension name and version; it is null when no
\* record was found or the record has no versions.
C12_NoPartialDescriptor ==
  Resolved =>
    /\ IsDescriptor(downloadInfo) =>
         /\ downloadInfo.downloadUrl # NoString
         /\ downloadInfo.version # NoString
         /\ extension.publisher.publisherName # NoString
         /\ extension.extensionName # NoString
    /\ ~HasVersions => downloadInfo = Null

\* the package assets of a file list, in list order
PackageAssets(files) ==
  SelectSeq(files, LAMBDA f :
    f.assetType = "Microsoft.VisualStudio.Services.VSIXPackage")

\* C20: the downloadUrl of a descriptor is the source of the first package
\* asset in the file list of the selected version, the version whose string the
\* descriptor reports, and of no file of another version.
C20_UrlFromSelectedVersion ==
  (Resolved /\ IsDescriptor(downloadInfo)) =>
    LET vs == extension.versions.a
        i == SelectedIndex
    IN /\ i > 0
       /\ vs[i].version = downloadInfo.version
       /\ vs[i].files # Undefined
       /\ PackageAssets(vs[i].files.a) # <<>>
       /\ downloadInfo.downloadUrl = PackageAssets(vs[i].files.a)[1].source
       /\ \A k \in 1..Len(vs) : k # i => ~UrlFromVersion(k)

\* the second version was asked for, holds two package assets, and the source
\* of the first of them came back
C20_Witness ==
  /\ Resolved
  /\ IsDescriptor(downloadInfo)
  /\ version = Str(<<"1.0.0">>)
  /\ Len(extension.versions.a) = 2
  /\ extension.versions.a[1].version = <<"2.0.0">>
  /\ extension.versions.a[2].files # Undefined
  /\ Len(PackageAssets(extension.versions.a[2].files.a)) = 2
  /\ downloadInfo.downloadUrl = SourceOf(2, 1)

-----------------------------------------------------------------------------
(* Properties of the client as a whole                                     *)

\* the selected version of the fetched record has no file list, or the record
\* has no publisher descriptor
RecordIncomplete ==
  /\ HasVersions
  /\ \/ extension.publisher = Undefined
     \/ extension.versions.a[1].files = Undefined

\* C13: no operation of the client throws or rejects. A finished call has a
\* result, and the result is null (false for the page test) for a string that
\* is no URL, a malformed identifier, a failed request, a body that is not JSON
\* or is null, a version without a file list and a record without a publisher.
C13_NoFaultEscapes ==
  /\ ~rejected /\ ~urlThrew /\ ~fileRejected
  /\ (urlCall # "none" /\ urlInput.t = "raw") => urlResult \in {Null, Bool(FALSE)}
  /\ filePc = "done" =>
       /\ fileResult # Pending
       /\ (fileResponse.kind = "throw" \/ fileResponse.body = Unreadable) =>
            fileResult = Null
  /\ (pc = "done" /\ caller \in {"fetchExtensionInfo", "getExtensionDownloadUrl"}) =>
       /\ extension # Pending
       /\ caller = "getExtensionDownloadUrl" => downloadInfo # Pending
       /\ (\/ MalformedId(extensionId)
           \/ TransportFailure
           \/ SuccessBody /\ response.body \in {Unparseable, Null}) =>
            /\ extension = Null
            /\ caller = "getExtensionDownloadUrl" => downloadInfo = Null
       /\ (caller = "getExtensionDownloadUrl" /\ RecordIncomplete /\
           ~TruthyStr(version)) => downloadInfo = Null

\* getExtensionDownloadUrl returned null for a record whose only version has no
\* file list
C13_Witness ==
  /\ Resolved
  /\ ~rejected
  /\ HasVersions
  /\ extension.versions.a[1].files = Undefined
  /\ version = Undefined
  /\ downloadInfo = Null

\* the marketplace queries among the requests issued
QueriesIssued == SelectSeq(network, LAMBDA r : r.method = "POST")

\* the other requests issued
GetsIssued == SelectSeq(network, LAMBDA r : r.method = "GET")

\* C14: a call of fetchExtensionInfo or getExtensionDownloadUrl with a
\* well-formed identifier issues exactly one request, the marketplace query for
\* that identifier, whatever the answer is: no second query after a failure or
\* an empty answer or for an explicit version, and no request for the asset.
C14_SingleQuery ==
  /\ Len(QueriesIssued) <= 1
  /\ (FetchCalled /\ extensionId = WellFormedId) =>
       QueriesIssued = <<MarketplaceQuery(extensionId)>>
  /\ Len(GetsIssued) = IF filePc = "idle" THEN 0 ELSE 1

\* an explicit version was asked for and not found, after one query and no
\* other request
C14_Witness ==
  /\ Resolved
  /\ version = Str(<<"1.0.0">>)
  /\ SuccessBody
  /\ HasVersions
  /\ extension.versions.a[1].version # <<"1.0.0">>
  /\ downloadInfo = Null
  /\ Len(network) = 1

\* C17: a call of downloadExtensionFile issues one GET to the given URL; it
\* resolves to the body as a blob when the response is a success and the body
\* can be read, and to null when the status is not a success or the transfer
\* fails; it never rejects, and the file name has no part in the result.
C17_SingleGetBlobOrNull ==
  /\ filePc # "idle" => GetsIssued = <<[url |-> fileArgs.downloadUrl, method |-> "GET"]>>
  /\ filePc = "done" =>
       /\ ~fileRejected
       /\ fileResult =
            IF /\ fileResponse.kind = "response"
               /\ fileResponse.ok
               /\ fileResponse.body.t = "readable"
            THEN [t |-> "blob", bytes |-> fileResponse.body.bytes]
            ELSE Null

\* null came back for a non-success status although the body could be read
C17_Witness ==
  /\ filePc = "done"
  /\ fileArgs.filename = <<"b.vsix">>
  /\ fileResponse.kind = "response"
  /\ ~fileResponse.ok
  /\ fileResponse.body.t = "readable"
  /\ fileResult = Null
  /\ Len(GetsIssued) = 1

-----------------------------------------------------------------------------
(* Properties of the URL operations                                        *)

\* the URL was written with the marketplace's host name, in either case
OnCanonicalHost ==
  /\ urlInput.t = "parts"
  /\ urlInput.host \in {"marketplace.visualstudio.com", "MARKETPLACE.VisualStudio.com"}

\* the URL was written with an itemName parameter
HasItemName ==
  /\ urlInput.t = "parts"
  /\ \E i \in 1..Len(urlInput.query) : urlInput.query[i].key = "itemName"

\* the value, as written, of the first itemName parameter
FirstItemNameValue ==
  LET q == urlInput.query
      i == CHOOSE k \in 1..Len(q) :
             q[k].key = "itemName" /\ \A j \in 1..(k - 1) : q[j].key # "itemName"
  IN q[i].value

\* C7: extractExtensionIdFromUrl returns null, without throwing, for an input
\* that is no URL, for a URL of another host whatever its path and query, and
\* for a URL of the canonical host without an itemName parameter.
C7_ExtractIsNull ==
  urlCall = "extractExtensionIdFromUrl" =>
    /\ ~urlThrew
    /\ (urlInput.t = "raw" \/ ~OnCanonicalHost \/ ~HasItemName) => urlResult = Null

\* another host's URL with an itemName parameter gave null
C7_Witness ==
  /\ urlCall = "extractExtensionIdFromUrl"
  /\ urlInput.t = "parts"
  /\ urlInput.host = "www.google.com"
  /\ urlInput.path = <<"/", "items">>
  /\ HasItemName
  /\ urlResult = Null

\* C8 as stated: on the canonical host the value of the itemName parameter is
\* returned whatever it is, the empty value included.
C8_AnyValueReturned ==
  (urlCall = "extractExtensionIdFromUrl" /\ OnCanonicalHost /\ HasItemName) =>
    urlResult = Str(PercentDecode(FirstItemNameValue))

\* C8, amended: on the canonical host and on any path, the decoded value of the
\* first itemName parameter is returned as it is when it is not empty, with or
\* without a '.'; when it is empty the result is null.
C8_NonEmptyValueReturned ==
  (urlCall = "extractExtensionIdFromUrl" /\ OnCanonicalHost /\ HasItemName) =>
    LET value == PercentDecode(FirstItemNameValue) IN
    urlResult = IF value = <<>> THEN Null ELSE Str(value)

\* a value without '.' came back from a page that is not the detail page
C8_Witness ==
  /\ urlCall = "extractExtensionIdFromUrl"
  /\ OnCanonicalHost
  /\ urlInput.path = <<"/", "vscode">>
  /\ HasItemName
  /\ FirstItemNameValue = <<"a">>
  /\ urlResult = Str(<<"a">>)

\* C9: isMarketplaceExtensionPage is true exactly for a URL of the canonical
\* host with path /items, whatever its query; it is false for the root, another
\* path, another host and an input that is no URL, and it never throws.
C9_DetailPageOnly ==
  urlCall = "isMarketplaceExtensionPage" =>
    /\ ~urlThrew
    /\ urlResult = Bool(OnCanonicalHost /\ urlInput.path = <<"/", "items">>)

\* the detail page with two parameters and no itemName among them was accepted
C9_Witness ==
  /\ urlCall = "isMarketplaceExtensionPage"
  /\ OnCanonicalHost
  /\ urlInput.path = <<"/", "items">>
  /\ Len(urlInput.query) = 2
  /\ ~HasItemName
  /\ urlResult = Bool(TRUE)

-----------------------------------------------------------------------------
(* Properties of the background dispatcher                                 *)

\* C10: for every message delivered to the listener, sendResponse is called
\* exactly once: never twice, and once by the time handleMessage has finished.
C10_RespondsExactlyOnce ==
  caller = "handleMessage" =>
    /\ Len(responses) <= 1
    /\ pc = "done" => Len(responses) = 1

\* a DOWNLOAD_EXTENSION request was delivered to the listener
DownloadRequested ==
  caller = "handleMessage" /\ message.type = "DOWNLOAD_EXTENSION"

\* C16: the response to a DOWNLOAD_EXTENSION request has success true exactly
\* when a descriptor was resolved and chrome.downloads.download returned an id,
\* and then its fileName is the descriptor's fileName; otherwise it has success
\* false and an error string, and no fileName.
C16_ResponseReflectsOutcome ==
  DownloadRequested =>
    /\ pc = "done" => responses # <<>>
    /\ \A i \in 1..Len(responses) :
         LET r == responses[i] IN
         /\ r.success <=> (IsDescriptor(downloadInfo) /\ downloadId = "id")
         /\ IF r.success
            THEN DOMAIN r = {"success", "fileName"} /\
                 r.fileName = downloadInfo.fileName
            ELSE DOMAIN r = {"success", "error"} /\ r.error # ""

\* the download of beta.kit-1.0.0.vsix started and success was reported
C16_Witness ==
  /\ DownloadRequested
  /\ pc = "done"
  /\ downloadId = "id"
  /\ responses = <<[success |-> TRUE,
                    fileName |-> <<"beta", ".", "kit", "-", "1.0.0", ".vsix">>]>>

\* C19: chrome.downloads.download is called at most once, only for a
\* DOWNLOAD_EXTENSION request whose descriptor has been resolved from the
\* request's extensionId, and with that descriptor's downloadUrl and fileName;
\* it is not called when the descriptor is null, nor for another message type.
C19_DownloadOnlyWithDescriptor ==
  /\ Len(downloads) <= 1
  /\ downloads # <<>> =>
       /\ DownloadRequested
       /\ IsDescriptor(downloadInfo)
       /\ network # <<>> /\ network[1].value = message.extensionId
       /\ downloads[1].url = downloadInfo.downloadUrl
       /\ downloads[1].filename = downloadInfo.fileName
  /\ (DownloadRequested /\ pc \in {"download", "done"} /\
      IsDescriptor(downloadInfo)) => Len(downloads) = 1

\* one download was started, for the package of acme.tool 2.0.0
C19_Witness ==
  /\ DownloadRequested
  /\ pc = "download"
  /\ downloadInfo # Pending /\ downloadInfo # Null
  /\ downloads = <<[url |-> SourceOf(1, 1),
                    filename |-> <<"acme", ".", "tool", "-", "2.0.0", ".vsix">>,
                    saveAs |-> TRUE, conflictAction |-> "uniquify"]>>

-----------------------------------------------------------------------------
(* Properties of the content script                                        *)

\* C18: every request sent by a click on the injected button of a page carries
\* the identifier of the extension that page shows, whatever other pages were
\* loaded or clicked in between.
C18_ClickSendsOwnExtension ==
  \A i \in 1..Len(sent) :
    sent[i].message = [type |-> "DOWNLOAD_EXTENSION",
                       extensionId |-> PageExtensionId(pageHref[sent[i].page]).s]

\* the click handlers of page p that have not finished
Outstanding(p) == getting[p] + sending[p]

\* C21: a page has at most one click handler outstanding, and while it is
\* outstanding the button is disabled; when the handler has ended the loading
\* indicator is hidden, the button is enabled and one status is shown, of
\* class success when the response had success = true and of class error when
\* the response was a failure or missing, no identifier was stored, or the
\* storage read or the message was rejected.
C21_ClickHandlerDiscipline ==
  \A p \in Pages :
    /\ Outstanding(p) <= 1
    /\ Outstanding(p) = 1 => dom[p].disabled /\ dom[p].loading
    /\ (Outstanding(p) = 0 /\ ended[p] # "none") =>
         /\ ~dom[p].loading
         /\ ~dom[p].disabled
         /\ dom[p].shows = 1
         /\ dom[p].status = IF ended[p] = "success" THEN "success" ELSE "error"

\* a second click on a page ended with the error status after its message got
\* no response
C21_Witness ==
  \E p \in Pages :
    /\ clicks = 2
    /\ Len(sent) = 2
    /\ sent[1].page = p /\ sent[2].page = p
    /\ Outstanding(p) = 0
    /\ ended[p] = "noResponse"
    /\ dom[p].status = "error"
    /\ ~dom[p].disabled

\* the URL of page p is the detail path with a non-empty itemName
ShowsExtension(p) ==
  /\ pageHref[p].path = <<"/", "items">>
  /\ pageHref[p].query # <<>>
  /\ pageHref[p].query[1].key = "itemName"
  /\ pageHref[p].query[1].value # <<>>

\* C22: a page holds a container only if its URL is a detail page with an
\* identifier and it shows an install button, and it never holds more than one
\* container, whether the listener or the timer ran the injection.
C22_ContainerOnlyOnDetailPage ==
  \A p \in Pages :
    /\ dom[p].containers <= 1
    /\ dom[p].containers = 1 => (ShowsExtension(p) /\ hasInstall[p])

\* one page holds its container while another detail page, without an install
\* button, ran the injection and holds none
C22_Witness ==
  \E p, q \in Pages :
    /\ dom[p].containers = 1
    /\ pagePc[p] = "ready"
    /\ ShowsExtension(q)
    /\ ~hasInstall[q]
    /\ pagePc[q] = "off"
    /\ dom[q].containers = 0

\* the popup's fetchExtensionInfo call returned a record for the identifier
\* extracted from the URL of the active tab, which is a detail page
PopupFetched(id) ==
  /\ tab # Undefined
  /\ PageIsDetail(tab.url)
  /\ PageExtensionId(tab.url) = id
  /\ popupExtension \notin {Pending, Null}

\* C23: the popup sends a DOWNLOAD_EXTENSION request only for the identifier
\* extracted from the URL of the active tab, on a tab classified as a detail
\* page, after fetchExtensionInfo returned a record for it to this popup;
\* currentExtensionId is set, and the button enabled by the popup, only after
\* such a fetch; and a click while currentExtensionId is unset sends nothing.
C23_PopupSendsOnlyFetchedId ==
  /\ [](/\ \A i \in 1..Len(popupSent) :
             \E id \in {PageExtensionId(href) : href \in PageHrefs} :
               /\ TruthyStr(id)
               /\ popupSent[i] = DownloadRequest(id.s)
               /\ PopupFetched(id)
        /\ currentExtensionId # Null => PopupFetched(currentExtensionId)
        /\ downloadBtn = "enabled" =>
             currentExtensionId # Null /\ PopupFetched(currentExtensionId))
  /\ [][currentExtensionId = Null /\ popupClicks' # popupClicks
          => popupSent' = popupSent]_vars

\* the button was clicked before the details were shown, which sent nothing,
\* and again after a successful fetch, which sent the request
C23_Witness ==
  /\ popupSent # <<>>
  /\ popupClicks > Len(popupSent)
  /\ PopupFetched(currentExtensionId)

====
